---- MODULE Spec2Model ----
(***************************************************************************)
(* A model of vim2vid (src/vim2vid.py): the editor buffer of               *)
(* VimVideoGenerator (_type_character, _backspace, _make_mistake), its     *)
(* text layout (_wrap_line, _draw_content, _get_char_color) and the typing *)
(* simulation (_simulate_typing, _type_text, _type_special_sequence).      *)
(*                                                                         *)
(* A Python string is a sequence of one-character strings, a list is a     *)
(* sequence; indices of the source are 0-based and kept 0-based in the     *)
(* state (cursor_row, cursor_col, char_idx), so s[i] of the source is      *)
(* s[i + 1] here.                                                          *)
(***************************************************************************)
EXTENDS Integers, Sequences, FiniteSets, TLC

VARIABLES
    lines,          \* self.lines: the Document, a list of strings
    cursor_row,     \* self.cursor_row
    cursor_col,     \* self.cursor_col
    mode,           \* self.mode
    scroll_offset,  \* self.scroll_offset
    prev,           \* the buffer before the last edit operation (history)
    hist,           \* the labels of the last two edit operations (history)
    columns,        \* config.columns
    visible_rows,   \* (config.height - 100) // (char_height + 4)
    highlight_patterns, \* config.highlight_patterns
    pc,             \* where _simulate_typing stands
    lpc,            \* where the frame being rendered stands
    i,              \* _draw_content: the index of the logical line at hand
    display_lines,  \* _draw_content: display_lines
    display_src,    \* for each display line, the index of its logical line
    cursor_display_row, \* _draw_content: cursor_display_row
    cursor_display_col, \* _draw_content: cursor_display_col
    wrapped,        \* _wrap_line: wrapped
    words,          \* _wrap_line: the words still to place
    current_line,   \* _wrap_line: current_line
    word,           \* _wrap_line: the word being split
    screen,         \* the rows drawn by the last frame
    text,           \* the input text of _simulate_typing
    special_sequences,  \* config.special_sequences, in the order of its items()
    mistake_rate,   \* config.mistake_rate, in percent
    line_idx,       \* _type_text: line_idx
    char_idx,       \* _type_text: char_idx
    pattern,        \* _type_text: the key that matched
    typo,           \* _type_special_sequence: typo
    correct,        \* _type_special_sequence: correct
    seq_idx,        \* _type_special_sequence: the index of the loop at hand
    fps,            \* config.fps
    show_greeting,  \* config.show_greeting
    video,          \* the number of frames written to video_writer
    shown,          \* what the last frame written shows: the buffer, the mode
    duration,       \* _add_frame: duration of the last call, in milliseconds
    num_frames,     \* _add_frame: num_frames of the last call
    video_writer,   \* self.video_writer: "None", "open", or "unopened" (isOpened() is false)
    output_file,    \* the output file: "absent", "writing", "partial", "complete"
    exit_status,    \* the exit status of main: "running", "0", "1"
    error           \* the exception the last edit operation raised, or "none"

bufVars == <<lines, cursor_row, cursor_col>>
histVars == <<prev, hist>>
cfgVars == <<columns, visible_rows, highlight_patterns>>
wrapVars == <<wrapped, words, current_line, word>>
drawVars == <<i, display_lines, display_src, cursor_display_row, cursor_display_col>>
layVars == <<lpc, i, display_lines, display_src, cursor_display_row,
             cursor_display_col, wrapped, words, current_line, word, screen>>
inVars == <<text, special_sequences, mistake_rate>>
typVars == <<line_idx, char_idx, pattern, typo, correct, seq_idx>>
vidVars == <<fps, show_greeting, video, shown, duration, num_frames>>
runVars == <<video_writer, output_file, exit_status, error>>
vars == <<lines, cursor_row, cursor_col, mode, scroll_offset, prev, hist,
          columns, visible_rows, highlight_patterns, pc, lpc, i, display_lines,
          display_src, cursor_display_row, cursor_display_col, wrapped, words,
          current_line, word, screen, text, special_sequences, mistake_rate,
          line_idx, char_idx, pattern, typo, correct, seq_idx,
          fps, show_greeting, video, shown, duration, num_frames,
          video_writer, output_file, exit_status, error>>

----------------------------------------------------------------------------
(* Strings *)

NL == "\n"

\* The characters a buffer run types.
Chars == {"a", " "}

\* random.choice('qwertyuiop')
WrongChars == {"q", "w", "e", "r", "t", "y", "u", "i", "o", "p"}

\* s[:n] of Python, for 0 <= n
Take(s, n) == SubSeq(s, 1, IF n < Len(s) THEN n ELSE Len(s))

\* s[n:] of Python, for 0 <= n
Drop(s, n) == SubSeq(s, n + 1, Len(s))

Min(a, b) == IF a <= b THEN a ELSE b

Max(a, b) == IF a >= b THEN a ELSE b

----------------------------------------------------------------------------
(* The buffer: lines, cursor_row, cursor_col *)

\* The size of the buffer run's Document: its characters and line breaks.
MaxBuf == 6

Buf == [lines |-> lines, cursor_row |-> cursor_row, cursor_col |-> cursor_col]

\* VimVideoGenerator.__init__: lines = [""], cursor (0, 0)
InitBuf == [lines |-> << <<>> >>, cursor_row |-> 0, cursor_col |-> 0]

RECURSIVE SumLen(_)
SumLen(ls) == IF ls = <<>> THEN 0 ELSE Len(Head(ls)) + SumLen(Tail(ls))

DocSize(ls) == SumLen(ls) + Len(ls) - 1

\* list.insert(k, x), 0 <= k <= len
ListInsert(ls, k, x) == SubSeq(ls, 1, k) \o <<x>> \o SubSeq(ls, k + 1, Len(ls))

\* del list[k], 0 <= k < len
ListDel(ls, k) == SubSeq(ls, 1, k) \o SubSeq(ls, k + 2, Len(ls))

\* A _type_character whose newline branch forgets cursor_col = 0.
TypeCharacterKeepsCol(b, char) ==
    LET ls0 == IF b.cursor_row >= Len(b.lines) THEN Append(b.lines, <<>>) ELSE b.lines
        r == b.cursor_row
        c == b.cursor_col
    IN  IF r >= Len(ls0) THEN [b EXCEPT !.lines = ls0]
        ELSE LET line == ls0[r + 1]
             IN  IF char = NL
                 THEN [lines |-> ListInsert([ls0 EXCEPT ![r + 1] = Take(line, c)],
                                            r + 1, Drop(line, c)),
                       cursor_row |-> r + 1,
                       cursor_col |-> c]
                 ELSE [lines |-> [ls0 EXCEPT ![r + 1] =
                                      Take(line, c) \o <<char>> \o Drop(line, c)],
                       cursor_row |-> r,
                       cursor_col |-> c + 1]

\* _type_character(char), line 388: the exception of self.lines[cursor_row]
\* when cursor_row is past the list even after the append of line 386
TypeCharacterError(b) ==
    IF b.cursor_row > Len(b.lines) THEN "IndexError" ELSE "none"

\* _type_character(char) on buffer b. With cursor_row > len(lines) the list
\* index of line 388 raises IndexError after line 386 has appended "".
TypeCharacter(b, char) ==
    LET ls0 == IF b.cursor_row >= Len(b.lines) THEN Append(b.lines, <<>>) ELSE b.lines
        r == b.cursor_row
        c == b.cursor_col
    IN  IF r >= Len(ls0) THEN [b EXCEPT !.lines = ls0]
        ELSE LET line == ls0[r + 1]
             IN  IF char = NL
                 THEN [lines |-> ListInsert([ls0 EXCEPT ![r + 1] = Take(line, c)],
                                            r + 1, Drop(line, c)),
                       cursor_row |-> r + 1,
                       cursor_col |-> 0]
                 ELSE [lines |-> [ls0 EXCEPT ![r + 1] =
                                      Take(line, c) \o <<char>> \o Drop(line, c)],
                       cursor_row |-> r,
                       cursor_col |-> c + 1]

\* A _backspace whose in-line branch forgets cursor_col -= 1.
BackspaceKeepsCol(b) ==
    LET r == b.cursor_row
        c == b.cursor_col
    IN  IF c > 0
        THEN [b EXCEPT !.lines[r + 1] = Take(@, c - 1) \o Drop(@, c)]
        ELSE IF r > 0
        THEN [lines |-> ListDel([b.lines EXCEPT ![r] = @ \o b.lines[r + 1]], r),
              cursor_row |-> r - 1,
              cursor_col |-> Len(b.lines[r])]
        ELSE b

\* A _backspace whose merge branch forgets cursor_col = len(prev_line).
BackspaceMergeCol0(b) ==
    LET r == b.cursor_row
        c == b.cursor_col
    IN  IF c > 0
        THEN [lines |-> [b.lines EXCEPT ![r + 1] = Take(@, c - 1) \o Drop(@, c)],
              cursor_row |-> r,
              cursor_col |-> c - 1]
        ELSE IF r > 0
        THEN [lines |-> ListDel([b.lines EXCEPT ![r] = @ \o b.lines[r + 1]], r),
              cursor_row |-> r - 1,
              cursor_col |-> 0]
        ELSE b

\* A _backspace whose merge branch tests cursor_row >= 0: at row 0 the
\* source's lines[-1] is the last line, which is merged into itself's place.
BackspaceAtStart(b) ==
    LET r == b.cursor_row
        c == b.cursor_col
    IN  IF c > 0
        THEN [lines |-> [b.lines EXCEPT ![r + 1] = Take(@, c - 1) \o Drop(@, c)],
              cursor_row |-> r,
              cursor_col |-> c - 1]
        ELSE IF r > 0
        THEN [lines |-> ListDel([b.lines EXCEPT ![r] = @ \o b.lines[r + 1]], r),
              cursor_row |-> r - 1,
              cursor_col |-> Len(b.lines[r])]
        ELSE [lines |-> ListDel([b.lines EXCEPT ![Len(b.lines)] = @ \o b.lines[1]], 0),
              cursor_row |-> r - 1,
              cursor_col |-> Len(b.lines[Len(b.lines)])]

\* _backspace(), lines 403, 406-407: the exception of the list indices when
\* cursor_row is past the list; it is raised before anything is assigned
BackspaceError(b) ==
    IF (b.cursor_col > 0 \/ b.cursor_row > 0) /\ b.cursor_row >= Len(b.lines)
    THEN "IndexError"
    ELSE "none"

\* _backspace() on buffer b, when it raises nothing
Backspace(b) ==
    LET r == b.cursor_row
        c == b.cursor_col
    IN  IF c > 0
        THEN [lines |-> [b.lines EXCEPT ![r + 1] = Take(@, c - 1) \o Drop(@, c)],
              cursor_row |-> r,
              cursor_col |-> c - 1]
        ELSE IF r > 0
        THEN [lines |-> ListDel([b.lines EXCEPT ![r] = @ \o b.lines[r + 1]], r),
              cursor_row |-> r - 1,
              cursor_col |-> Len(b.lines[r])]
        ELSE b

\* The buffer effect of _make_mistake(): the wrong character, then _backspace
\* (the frames between them do not touch the buffer).
MistakeEffect(b, wrong_char) == Backspace(TypeCharacter(b, wrong_char))

SetBuf(b) ==
    /\ lines' = b.lines
    /\ cursor_row' = b.cursor_row
    /\ cursor_col' = b.cursor_col

Log(op) ==
    /\ prev' = Buf
    /\ hist' = <<hist[2], op>>

\* No frame is being rendered: the locals of _draw_content and _wrap_line
\* do not exist.
NoFrame ==
    /\ lpc = "idle"
    /\ i = 0
    /\ display_lines = <<>>
    /\ display_src = <<>>
    /\ cursor_display_row = 0
    /\ cursor_display_col = 0
    /\ wrapped = <<>>
    /\ words = <<>>
    /\ current_line = <<>>
    /\ word = <<>>
    /\ screen = <<>>

\* The run renders no frame: the viewport configuration is not read.
NoConfig ==
    /\ columns = 0
    /\ visible_rows = 0
    /\ highlight_patterns = <<>>

\* The run is not driven by _type_text: it reads no input text.
NoTyping ==
    /\ text = <<>>
    /\ special_sequences = <<>>
    /\ mistake_rate = 0
    /\ line_idx = 0
    /\ char_idx = 0
    /\ pattern = <<>>
    /\ typo = <<>>
    /\ correct = <<>>
    /\ seq_idx = 0

\* video_writer has been given no frame yet.
Blank == [lines |-> <<>>, cursor_row |-> 0, cursor_col |-> 0, mode |-> "none"]

\* The run does not look at the encoder: no frame is counted.
NoVideo ==
    /\ fps = 0
    /\ show_greeting = FALSE
    /\ video = 0
    /\ shown = Blank
    /\ duration = 0
    /\ num_frames = 0
    /\ video_writer = "None"
    /\ output_file = "absent"
    /\ exit_status = "running"
    /\ error = "none"

----------------------------------------------------------------------------
(* The buffer run: any sequence of insertChar, insertNewline, backspace and *)
(* injected mistakes from the constructor's state.                         *)

Init ==
    /\ lines = InitBuf.lines
    /\ cursor_row = InitBuf.cursor_row
    /\ cursor_col = InitBuf.cursor_col
    /\ prev = InitBuf
    /\ hist = <<"none", "none">>
    /\ mode = "NORMAL"
    /\ scroll_offset = 0
    /\ pc = "buffer"
    /\ NoConfig
    /\ NoFrame
    /\ NoTyping
    /\ NoVideo

InsertChar ==
    \E c \in Chars :
        /\ DocSize(lines) < MaxBuf
        /\ SetBuf(TypeCharacter(Buf, c))
        /\ Log("insertChar")
        /\ UNCHANGED <<mode, scroll_offset, pc, cfgVars, inVars, vidVars, runVars, typVars, layVars>>

InsertNewline ==
    /\ DocSize(lines) < MaxBuf
    /\ SetBuf(TypeCharacter(Buf, NL))
    /\ Log("insertNewline")
    /\ UNCHANGED <<mode, scroll_offset, pc, cfgVars, inVars, vidVars, runVars, typVars, layVars>>

DoBackspace ==
    /\ SetBuf(Backspace(Buf))
    /\ Log("backspace")
    /\ UNCHANGED <<mode, scroll_offset, pc, cfgVars, inVars, vidVars, runVars, typVars, layVars>>

MakeMistake ==
    \E w \in WrongChars :
        /\ SetBuf(MistakeEffect(Buf, w))
        /\ Log("mistake")
        /\ UNCHANGED <<mode, scroll_offset, pc, cfgVars, inVars, vidVars, runVars, typVars, layVars>>

Next == InsertChar \/ InsertNewline \/ DoBackspace \/ MakeMistake

Spec == Init /\ [][Next]_vars

----------------------------------------------------------------------------
(* Claims on the buffer *)

ValidCursor(b) ==
    /\ Len(b.lines) >= 1
    /\ 0 <= b.cursor_row /\ b.cursor_row < Len(b.lines)
    /\ 0 <= b.cursor_col /\ b.cursor_col <= Len(b.lines[b.cursor_row + 1])

\* C1: in every state reachable from ([""], (0,0)) by insertChar,
\* insertNewline and backspace, the Document has at least one line,
\* 0 <= cursor_row < number of lines and 0 <= cursor_col <= len(lines[cursor_row]).
C1_CursorInvariant == ValidCursor(Buf)

\* C1's case: several lines, and a backspace that has changed the buffer and
\* left the cursor on a non-empty line.
C1_Witness ==
    /\ hist[2] = "backspace"
    /\ Len(lines) >= 2
    /\ cursor_col > 0
    /\ prev # Buf

\* C2: backspace() with the cursor at (0, 0) leaves lines and cursor unchanged.
C2_BackspaceAtOriginNoOp ==
    (hist[2] = "backspace" /\ prev.cursor_row = 0 /\ prev.cursor_col = 0) => Buf = prev

\* C2's case: a backspace was applied at (0, 0), after another backspace.
C2_Witness ==
    /\ hist = <<"backspace", "backspace">>
    /\ prev.cursor_row = 0 /\ prev.cursor_col = 0

\* C3: insertNewline() then backspace() restores the lines and the cursor
\* that were there before the newline (prev holds them while the newline is
\* the last operation).
C3_NewlineBackspaceRoundTrip ==
    [][(hist[2] = "insertNewline" /\ hist' = <<"insertNewline", "backspace">>)
        => (lines' = prev.lines /\ cursor_row' = prev.cursor_row
            /\ cursor_col' = prev.cursor_col)]_vars

\* C3's case: a newline typed at the end of a non-empty line of a Document
\* of several lines, then a backspace.
C3_Witness ==
    /\ hist = <<"insertNewline", "backspace">>
    /\ Len(lines) >= 2
    /\ cursor_col > 0

----------------------------------------------------------------------------
(* The edit operations called on any buffer, the cursor_row past the list   *)
(* of lines included: one call of _type_character or _backspace.            *)

\* The lines of these buffers, and the length of each.
MaxRows == 2

\* The lines a buffer of these calls holds.
CLines == UNION {[1..n -> {"a"}] : n \in 0..MaxRows}

CDocs == UNION {[1..n -> CLines] : n \in 0..MaxRows}

CInit ==
    /\ lines \in CDocs
    /\ cursor_row \in 0..(MaxRows + 1)
    /\ cursor_col \in 0..MaxRows
    /\ prev = InitBuf
    /\ hist = <<"none", "none">>
    /\ mode = "INSERT"
    /\ scroll_offset = 0
    /\ pc = "call"
    /\ NoConfig
    /\ NoFrame
    /\ NoTyping
    /\ NoVideo

\* _type_character(char)
CTypeCharacter ==
    /\ pc = "call"
    /\ \E char \in {"a", NL} : SetBuf(TypeCharacter(Buf, char))
    /\ error' = TypeCharacterError(Buf)
    /\ Log("insertChar")
    /\ pc' = "returned"
    /\ UNCHANGED <<mode, scroll_offset, cfgVars, inVars, typVars, layVars, vidVars,
                   video_writer, output_file, exit_status>>

\* _backspace()
CBackspace ==
    /\ pc = "call"
    /\ IF BackspaceError(Buf) # "none" THEN UNCHANGED bufVars ELSE SetBuf(Backspace(Buf))
    /\ error' = BackspaceError(Buf)
    /\ Log("backspace")
    /\ pc' = "returned"
    /\ UNCHANGED <<mode, scroll_offset, cfgVars, inVars, typVars, layVars, vidVars,
                   video_writer, output_file, exit_status>>

CNext == CTypeCharacter \/ CBackspace

ContractSpec == CInit /\ [][CNext]_vars

\* C17: an edit operation applied with cursor_row >= the number of lines
\* raises an error and leaves the Document as it was.
C17_FailFast ==
    (pc = "returned" /\ prev.cursor_row >= Len(prev.lines))
        => (error # "none" /\ lines = prev.lines)

----------------------------------------------------------------------------
(* The layout: _wrap_line, _draw_content, _get_char_color, one loop        *)
(* iteration a step. The layout run types any text (any sequence of        *)
(* insertChar, insertNewline, backspace in INSERT mode) and renders a frame *)
(* after every edit, as _add_frame does, so that scroll_offset carries     *)
(* over from frame to frame as it does in the program.                     *)

\* The size of the layout run's Document: its characters and line breaks.
MaxDoc == 5

\* config.columns is drawn from 1 .. MaxColumns.
MaxColumns == 4

\* visible_rows is drawn from 0 .. MaxVisible.
MaxVisible == 2

\* The segments the wrapped list of one _wrap_line call can hold before
\* memory runs out; more than any line of the run has characters.
MaxSegs == 8

\* The characters a layout run types.
LChars == {"a", "b", " "}

\* The highlight_patterns a layout run is configured with.
PatternTables == { << <<"a", "b">>, <<"a", " ", "a">> >> }

\* The index (0-based) of the first ch in s at or after index from, or -1.
RECURSIVE IndexOf(_, _, _)
IndexOf(s, ch, from) ==
    IF from >= Len(s) THEN -1
    ELSE IF s[from + 1] = ch THEN from
    ELSE IndexOf(s, ch, from + 1)

\* text.split(' ')
RECURSIVE SplitSpaces(_)
SplitSpaces(s) ==
    LET k == IndexOf(s, " ", 0)
    IN  IF k = -1 THEN <<s>>
        ELSE <<Take(s, k)>> \o SplitSpaces(Drop(s, k + 1))

\* s.startswith(p)
StartsWith(s, p) == Len(p) <= Len(s) /\ SubSeq(s, 1, Len(p)) = p

\* s.find(p): the index of the first occurrence of p in s at or after from, or -1
RECURSIVE FindFrom(_, _, _)
FindFrom(s, p, from) ==
    IF from + Len(p) > Len(s) THEN -1
    ELSE IF StartsWith(Drop(s, from), p) THEN from
    ELSE FindFrom(s, p, from + 1)

Find(s, p) == FindFrom(s, p, 0)

\* A line 473 that forgets the space between the words.
WordFitsNoSpace(cur, wd, wdth) == Len(cur) + Len(wd) <= wdth

\* _wrap_line, line 473: len(current_line) + len(word) + 1 <= width
WordFits(cur, wd, wdth) == Len(cur) + Len(wd) + 1 <= wdth

\* Lines 514-524 without the else clause of the loop (lines 521-524): a
\* cursor the loop does not place keeps the values of lines 499-500.
RECURSIVE CursorInWrappedNoElse(_, _, _, _)
CursorInWrappedNoElse(segs, col, j, char_count) ==
    IF j >= Len(segs)
    THEN [row |-> 0, col |-> col]
    ELSE IF char_count + Len(segs[j + 1]) >= col
    THEN [row |-> j, col |-> col - char_count]
    ELSE CursorInWrappedNoElse(segs, col, j + 1, char_count + Len(segs[j + 1]) + 1)

\* _draw_content, lines 514-524: the display row (relative to the line's
\* first segment) and column of the cursor in the wrapped segments segs,
\* from segment j with char_count characters counted so far.
RECURSIVE CursorInWrapped(_, _, _, _)
CursorInWrapped(segs, col, j, char_count) ==
    IF j >= Len(segs)
    THEN [row |-> Len(segs) - 1, col |-> Len(segs[Len(segs)])]
    ELSE IF char_count + Len(segs[j + 1]) >= col
    THEN [row |-> j, col |-> col - char_count]
    ELSE CursorInWrapped(segs, col, j + 1, char_count + Len(segs[j + 1]) + 1)

\* Lines 531-534 with a scroll down that puts the cursor on the top row of
\* the window instead of the bottom one.
AutoScrollToCursor(cdr, so, vr) ==
    IF cdr >= so + vr THEN cdr
    ELSE IF cdr < so THEN cdr
    ELSE so

\* A line 532 that forgets the + 1.
AutoScrollNoPlusOne(cdr, so, vr) ==
    IF cdr >= so + vr THEN cdr - vr
    ELSE IF cdr < so THEN cdr
    ELSE so

\* _draw_content, lines 531-534: the scroll_offset after the update
AutoScroll(cdr, so, vr) ==
    IF cdr >= so + vr THEN cdr - vr + 1
    ELSE IF cdr < so THEN cdr
    ELSE so

\* _get_char_color(line, col) over the patterns pats: "highlight" or "text"
RECURSIVE GetCharColor(_, _, _)
GetCharColor(pats, line, col) ==
    IF pats = <<>> THEN "text"
    ELSE LET start == Find(line, Head(pats))
         IN  IF start # -1 /\ start <= col /\ col < start + Len(Head(pats))
             THEN "highlight"
             ELSE GetCharColor(Tail(pats), line, col)

\* _draw_line_plain(line): the color of every character
DrawLinePlain(line) ==
    [kind |-> "line",
     text |-> line,
     colors |-> [col \in 1..Len(line) |-> GetCharColor(highlight_patterns, line, col - 1)],
     cursor |-> {}]

\* _draw_line_with_cursor(line, cursor_col): the cursor cell takes the place
\* of the character's color; past the end of the line it is drawn after it.
DrawLineWithCursor(line, ccol) ==
    [kind |-> "line",
     text |-> line,
     colors |-> [col \in 1..Len(line) |->
                    IF col - 1 = ccol THEN "cursor"
                    ELSE GetCharColor(highlight_patterns, line, col - 1)],
     cursor |-> (IF ccol >= Len(line) THEN {Len(line)} ELSE {})
                \cup {col \in 0..(Len(line) - 1) : col = ccol}]

\* A line 544 that does not test the mode.
DrawRowAnyMode(screen_row) ==
    LET display_idx == screen_row + scroll_offset
    IN  IF display_idx < Len(display_lines)
        THEN IF display_idx = cursor_display_row
             THEN DrawLineWithCursor(display_lines[display_idx + 1], cursor_display_col)
             ELSE DrawLinePlain(display_lines[display_idx + 1])
        ELSE [kind |-> "tilde", text |-> <<"~">>, colors |-> <<"tilde">>, cursor |-> {}]

\* _draw_content, lines 538-551: the row drawn at screen_row
DrawRow(screen_row) ==
    LET display_idx == screen_row + scroll_offset
    IN  IF display_idx < Len(display_lines)
        THEN IF mode = "INSERT" /\ display_idx = cursor_display_row
             THEN DrawLineWithCursor(display_lines[display_idx + 1], cursor_display_col)
             ELSE DrawLinePlain(display_lines[display_idx + 1])
        ELSE [kind |-> "tilde", text |-> <<"~">>, colors |-> <<"tilde">>, cursor |-> {}]

LInit ==
    /\ lines = InitBuf.lines
    /\ cursor_row = InitBuf.cursor_row
    /\ cursor_col = InitBuf.cursor_col
    /\ prev = InitBuf
    /\ hist = <<"none", "none">>
    /\ mode = "NORMAL"
    /\ scroll_offset = 0
    /\ pc = "open"
    /\ columns \in 1..MaxColumns
    /\ visible_rows \in 0..MaxVisible
    /\ highlight_patterns \in PatternTables
    /\ NoFrame
    /\ NoTyping
    /\ NoVideo

\* _simulate_typing, lines 252-259: the frames of the file being opened
LOpenFile ==
    /\ pc = "open" /\ lpc = "idle"
    /\ pc' = "opened"
    /\ lpc' = "frame"
    /\ UNCHANGED <<bufVars, mode, scroll_offset, histVars, cfgVars, inVars, vidVars, runVars, typVars, drawVars,
                   wrapVars, screen>>

\* _simulate_typing, lines 261-262: INSERT mode and its frame
LEnterInsert ==
    /\ pc = "opened" /\ lpc = "idle"
    /\ mode' = "INSERT"
    /\ pc' = "typing"
    /\ lpc' = "frame"
    /\ UNCHANGED <<bufVars, scroll_offset, histVars, cfgVars, inVars, vidVars, runVars, typVars, drawVars, wrapVars,
                   screen>>

\* One edit operation of the typing (_type_character or _backspace) and the
\* call of _add_frame that follows it.
LEdit ==
    /\ pc = "typing" /\ lpc = "idle"
    /\ \/ \E c \in LChars \cup {NL} :
            /\ DocSize(lines) < MaxDoc
            /\ SetBuf(TypeCharacter(Buf, c))
       \/ SetBuf(Backspace(Buf))
    /\ lpc' = "frame"
    /\ UNCHANGED <<mode, scroll_offset, histVars, cfgVars, inVars, vidVars, runVars, typVars, pc, drawVars, wrapVars,
                   screen>>

\* _simulate_typing, lines 268-269: NORMAL mode and its frame
LExitInsert ==
    /\ pc = "typing" /\ lpc = "idle"
    /\ mode' = "NORMAL"
    /\ pc' = "saved"
    /\ lpc' = "frame"
    /\ UNCHANGED <<bufVars, scroll_offset, histVars, cfgVars, inVars, vidVars, runVars, typVars, drawVars, wrapVars,
                   screen>>

\* _render_frame, lines 425-432: a fresh image; the greeting (which lays out
\* nothing of the Document) or the first lines of _draw_content (498-500)
LRenderFrame ==
    /\ lpc = "frame"
    /\ screen' = <<>>
    /\ IF Len(lines) = 1 /\ lines[1] = <<>> /\ mode = "NORMAL"
       THEN /\ lpc' = "idle"
            /\ UNCHANGED <<drawVars, wrapVars>>
       ELSE /\ lpc' = "lines"
            /\ i' = 0
            /\ display_lines' = <<>>
            /\ display_src' = <<>>
            /\ cursor_display_row' = 0
            /\ cursor_display_col' = cursor_col
            /\ UNCHANGED wrapVars
    /\ UNCHANGED <<bufVars, mode, scroll_offset, histVars, cfgVars, inVars, vidVars, runVars, typVars, pc>>

\* _draw_content, lines 504-508: a line that needs no wrapping
LDrawShortLine ==
    /\ lpc = "lines" /\ i < Len(lines)
    /\ Len(lines[i + 1]) <= columns - 1
    /\ IF i = cursor_row
       THEN /\ cursor_display_row' = Len(display_lines)
            /\ cursor_display_col' = cursor_col
       ELSE UNCHANGED <<cursor_display_row, cursor_display_col>>
    /\ display_lines' = Append(display_lines, lines[i + 1])
    /\ display_src' = Append(display_src, i)
    /\ i' = i + 1
    /\ UNCHANGED <<bufVars, mode, scroll_offset, histVars, cfgVars, inVars, vidVars, runVars, typVars, pc, lpc,
                   wrapVars, screen>>

\* _draw_content, line 511, and _wrap_line, lines 465-470: the call
\* _wrap_line(line, columns - 1) up to its loop over the words. The caller
\* has tested len(line) > columns - 1, so that line 465 never returns [text]
\* here; were it to, the loop over no words leads to the return.
LWrapCall ==
    /\ lpc = "lines" /\ i < Len(lines)
    /\ ~(Len(lines[i + 1]) <= columns - 1)
    /\ IF Len(lines[i + 1]) <= columns - 1
       THEN /\ wrapped' = <<lines[i + 1]>>
            /\ words' = <<>>
       ELSE /\ wrapped' = <<>>
            /\ words' = SplitSpaces(lines[i + 1])
    /\ current_line' = <<>>
    /\ word' = <<>>
    /\ lpc' = "words"
    /\ UNCHANGED <<bufVars, mode, scroll_offset, histVars, cfgVars, inVars, vidVars, runVars, typVars, pc, drawVars,
                   screen>>

\* _wrap_line, lines 472-477: the word joins current_line
LWordFits ==
    /\ lpc = "words" /\ words # <<>>
    /\ WordFits(current_line, Head(words), columns - 1)
    /\ current_line' = IF current_line # <<>>
                       THEN current_line \o <<" ">> \o Head(words)
                       ELSE Head(words)
    /\ words' = Tail(words)
    /\ UNCHANGED <<bufVars, mode, scroll_offset, histVars, cfgVars, inVars, vidVars, runVars, typVars, pc, lpc,
                   drawVars, wrapped, word, screen>>

\* _wrap_line, lines 478-488: current_line is flushed; the word starts the
\* next line, or is split first when it is longer than width
LWordFlush ==
    /\ lpc = "words" /\ words # <<>>
    /\ ~WordFits(current_line, Head(words), columns - 1)
    /\ wrapped' = IF current_line # <<>> THEN Append(wrapped, current_line) ELSE wrapped
    /\ words' = Tail(words)
    /\ IF Len(Head(words)) > columns - 1
       THEN /\ word' = Head(words)
            /\ lpc' = "split"
            /\ UNCHANGED current_line
       ELSE /\ current_line' = Head(words)
            /\ UNCHANGED <<word, lpc>>
    /\ UNCHANGED <<bufVars, mode, scroll_offset, histVars, cfgVars, inVars, vidVars, runVars, typVars, pc, drawVars,
                   screen>>

\* A loop of lines 483-485 whose line 485 is word = word[width + 1:]: every
\* iteration loses a character of the word.
LSplitSkips ==
    /\ lpc = "split"
    /\ Len(word) > columns - 1
    /\ Len(wrapped) < MaxSegs
    /\ wrapped' = Append(wrapped, Take(word, columns - 1))
    /\ word' = Drop(word, columns)
    /\ UNCHANGED <<bufVars, mode, scroll_offset, histVars, cfgVars, inVars, vidVars, runVars, typVars, pc, lpc,
                   drawVars, words, current_line, screen>>

\* _wrap_line, lines 483-485: one iteration of the loop that splits a word
LSplit ==
    /\ lpc = "split"
    /\ Len(word) > columns - 1
    /\ Len(wrapped) < MaxSegs
    /\ wrapped' = Append(wrapped, Take(word, columns - 1))
    /\ word' = Drop(word, columns - 1)
    /\ UNCHANGED <<bufVars, mode, scroll_offset, histVars, cfgVars, inVars, vidVars, runVars, typVars, pc, lpc,
                   drawVars, words, current_line, screen>>

\* _wrap_line, line 484, when the list cannot grow: MemoryError, which
\* nothing in the layout catches
LSplitMemoryError ==
    /\ lpc = "split"
    /\ Len(word) > columns - 1
    /\ Len(wrapped) >= MaxSegs
    /\ lpc' = "MemoryError"
    /\ UNCHANGED <<bufVars, mode, scroll_offset, histVars, cfgVars, inVars, vidVars, runVars, typVars, pc, drawVars,
                   wrapVars, screen>>

\* _wrap_line, line 486: the rest of the split word starts the next line
LSplitEnd ==
    /\ lpc = "split"
    /\ ~(Len(word) > columns - 1)
    /\ current_line' = word
    /\ word' = <<>>
    /\ lpc' = "words"
    /\ UNCHANGED <<bufVars, mode, scroll_offset, histVars, cfgVars, inVars, vidVars, runVars, typVars, pc, drawVars,
                   wrapped, words, screen>>

\* _wrap_line, lines 490-493: the return; _draw_content, lines 512-525: the
\* cursor's place in the segments, which join display_lines
LWrapReturn ==
    /\ lpc = "words" /\ words = <<>>
    /\ LET w0 == IF current_line # <<>> THEN Append(wrapped, current_line) ELSE wrapped
           segs == IF w0 # <<>> THEN w0 ELSE << <<>> >>
           at == CursorInWrapped(segs, cursor_col, 0, 0)
       IN  /\ IF i = cursor_row
              THEN /\ cursor_display_row' = Len(display_lines) + at.row
                   /\ cursor_display_col' = at.col
              ELSE UNCHANGED <<cursor_display_row, cursor_display_col>>
           /\ display_lines' = display_lines \o segs
           /\ display_src' = display_src \o [j \in 1..Len(segs) |-> i]
    /\ i' = i + 1
    /\ wrapped' = <<>>
    /\ current_line' = <<>>
    /\ lpc' = "lines"
    /\ UNCHANGED <<bufVars, mode, scroll_offset, histVars, cfgVars, inVars, vidVars, runVars, typVars, pc, words, word,
                   screen>>

\* _draw_content, lines 527-534: the auto-scroll
LAutoScroll ==
    /\ lpc = "lines" /\ i >= Len(lines)
    /\ scroll_offset' = AutoScroll(cursor_display_row, scroll_offset, visible_rows)
    /\ lpc' = "rows"
    /\ UNCHANGED <<bufVars, mode, histVars, cfgVars, inVars, vidVars, runVars, typVars, pc, drawVars, wrapVars, screen>>

\* _draw_content, lines 536-551: the rows of the window are drawn
LDrawRows ==
    /\ lpc = "rows"
    /\ screen' = [r \in 1..visible_rows |-> DrawRow(r - 1)]
    /\ lpc' = "idle"
    /\ UNCHANGED <<bufVars, mode, scroll_offset, histVars, cfgVars, inVars, vidVars, runVars, typVars, pc, drawVars,
                   wrapVars>>

LNext ==
    \/ LOpenFile \/ LEnterInsert \/ LEdit \/ LExitInsert
    \/ LRenderFrame \/ LDrawShortLine \/ LWrapCall \/ LWordFits \/ LWordFlush
    \/ LSplit \/ LSplitMemoryError \/ LSplitEnd \/ LWrapReturn
    \/ LAutoScroll \/ LDrawRows

LayoutSpec == LInit /\ [][LNext]_vars

----------------------------------------------------------------------------
(* _wrap_line called on any text with any width: the call, the iterations  *)
(* of its loops (the steps of the layout run above) and the return.        *)

\* The length of the texts _wrap_line is called on.
MaxWrapText == 5

\* The texts _wrap_line is called on: lines[0] holds the argument.
WTexts == UNION {[1..n -> LChars] : n \in 0..MaxWrapText}

\* A call _wrap_line(lines[0], columns - 1) is about to be made, the width
\* from 0 on.
WInit ==
    /\ lines \in {<<t>> : t \in WTexts}
    /\ cursor_row = 0
    /\ cursor_col = 0
    /\ prev = InitBuf
    /\ hist = <<"none", "none">>
    /\ mode = "NORMAL"
    /\ scroll_offset = 0
    /\ pc = "wrap"
    /\ columns \in 1..MaxColumns
    /\ visible_rows = 0
    /\ highlight_patterns = <<>>
    /\ lpc = "call"
    /\ i = 0
    /\ display_lines = <<>>
    /\ display_src = <<>>
    /\ cursor_display_row = 0
    /\ cursor_display_col = 0
    /\ wrapped = <<>>
    /\ words = <<>>
    /\ current_line = <<>>
    /\ word = <<>>
    /\ screen = <<>>
    /\ NoTyping
    /\ NoVideo

\* _wrap_line, lines 465-470: a text that fits is returned as it is;
\* otherwise the loop over the words starts. wrapped holds the list returned.
WWrapCall ==
    /\ lpc = "call"
    /\ IF Len(lines[i + 1]) <= columns - 1
       THEN /\ wrapped' = <<lines[i + 1]>>
            /\ words' = <<>>
            /\ lpc' = "returned"
       ELSE /\ wrapped' = <<>>
            /\ words' = SplitSpaces(lines[i + 1])
            /\ lpc' = "words"
    /\ current_line' = <<>>
    /\ word' = <<>>
    /\ UNCHANGED <<bufVars, mode, scroll_offset, histVars, cfgVars, inVars, vidVars, runVars, typVars, pc, drawVars,
                   screen>>

\* _wrap_line, lines 490-493: the last line joins the list, which is
\* returned, or [""] when it is empty
WWrapReturn ==
    /\ lpc = "words" /\ words = <<>>
    /\ LET w0 == IF current_line # <<>> THEN Append(wrapped, current_line) ELSE wrapped
       IN  wrapped' = IF w0 # <<>> THEN w0 ELSE << <<>> >>
    /\ lpc' = "returned"
    /\ UNCHANGED <<bufVars, mode, scroll_offset, histVars, cfgVars, inVars, vidVars, runVars, typVars, pc, drawVars,
                   words, current_line, word, screen>>

WNext ==
    \/ WWrapCall \/ LWordFits \/ LWordFlush
    \/ LSplit \/ LSplitMemoryError \/ LSplitEnd \/ WWrapReturn

WrapSpec == WInit /\ [][WNext]_vars

----------------------------------------------------------------------------
(* Claims on the layout *)

\* C4: with columns - 1 >= 1, every DisplayLine the layout produces (a short
\* line taken verbatim, a segment of _wrap_line) has length <= columns - 1.
C4_DisplayLineWidth ==
    columns - 1 >= 1 =>
        /\ \A d \in 1..Len(display_lines) : Len(display_lines[d]) <= columns - 1
        /\ \A d \in 1..Len(wrapped) : Len(wrapped[d]) <= columns - 1
        /\ Len(current_line) <= columns - 1

\* C4's case: a frame whose line was both wrapped at a space and split
\* inside a word, with segments as wide as columns - 1.
C4_Witness ==
    /\ lpc = "idle" /\ pc = "typing"
    /\ columns = 3
    /\ lines = << <<"b", " ", "a", "a", "a">> >>
    /\ display_lines = << <<"b">>, <<"a", "a">>, <<"a">> >>

\* C5: after the auto-scroll update of a frame, with visible_rows >= 1,
\* scroll_offset <= cursor_display_row < scroll_offset + visible_rows.
C5_CursorInViewport ==
    (lpc = "rows" /\ visible_rows >= 1) =>
        /\ scroll_offset <= cursor_display_row
        /\ cursor_display_row < scroll_offset + visible_rows

\* C5's case: the update has scrolled down, the cursor is on the bottom row
\* of a window of two rows.
C5_Witness ==
    /\ lpc = "rows"
    /\ visible_rows = 2
    /\ scroll_offset > 0
    /\ cursor_display_row = scroll_offset + visible_rows - 1

\* C6: for any Document and any viewport of at least 1 column and 1 row
\* (columns = 1 included) the layout of a frame terminates: no layout runs
\* until the list of segments has used up the memory, which is the one way
\* its loops do not end (all but the loop of lines 483-485 run over a list).
C6_LayoutTerminates == lpc # "MemoryError"

\* The number of occurrences of p in s.
RECURSIVE CountOccFrom(_, _, _)
CountOccFrom(s, p, from) ==
    IF from + Len(p) > Len(s) THEN 0
    ELSE (IF StartsWith(Drop(s, from), p) THEN 1 ELSE 0) + CountOccFrom(s, p, from + 1)

CountOcc(s, p) == CountOccFrom(s, p, 0)

\* The index in its logical line of the first character of display line d:
\* the segments of a line follow each other in it, spaces apart.
RECURSIVE SegStart(_)
SegStart(d) ==
    LET L == lines[display_src[d] + 1]
        from == IF d > 1 /\ display_src[d - 1] = display_src[d]
                THEN SegStart(d - 1) + Len(display_lines[d - 1])
                ELSE 0
    IN  FindFrom(L, display_lines[d], from)

\* C9: when a highlight pattern occurs exactly once in a logical line (and
\* no other pattern occurs in it), the characters of the line drawn in the
\* highlight color are exactly those of the occurrence, at their source
\* positions, however the line is wrapped; the cursor cell aside.
C9_HighlightMapping ==
    (lpc = "idle" /\ screen # <<>>) =>
        \A r \in 1..Len(screen) :
            LET d == r + scroll_offset
            IN  d <= Len(display_lines) =>
                    LET L == lines[display_src[d] + 1]
                    IN  \A p \in 1..Len(highlight_patterns) :
                            LET pat == highlight_patterns[p]
                            IN  (/\ CountOcc(L, pat) = 1
                                 /\ \A q \in 1..Len(highlight_patterns) :
                                        q # p => CountOcc(L, highlight_patterns[q]) = 0)
                                => \A col \in 1..Len(screen[r].text) :
                                       screen[r].colors[col] # "cursor" =>
                                           (screen[r].colors[col] = "highlight"
                                            <=> /\ Find(L, pat) <= SegStart(d) + col - 1
                                                /\ SegStart(d) + col - 1 < Find(L, pat) + Len(pat))

\* The display lines (1-based indices into display_lines) of logical line n.
SegsOf(n) == {d \in 1..Len(display_lines) : display_src[d] = n}

\* The display line of logical line n whose range of consumed source
\* characters holds the column col: it starts at or before col and the next
\* one of the line, if any, starts after it.
SegAt(n, col) ==
    CHOOSE d \in SegsOf(n) :
        /\ SegStart(d) <= col
        /\ (d + 1 \in SegsOf(n) => SegStart(d + 1) > col)

\* C16: in a laid-out frame, when the cursor's logical line is longer than
\* columns - 1 (and columns - 1 >= 1), cursor_display_row is the wrapped
\* segment whose range of source characters holds cursor_col, and
\* cursor_display_col is cursor_col minus the source characters consumed by
\* the segments before it.
C16_CursorMapping ==
    (/\ lpc = "rows"
     /\ columns - 1 >= 1
     /\ Len(lines[cursor_row + 1]) > columns - 1)
    => LET d == SegAt(cursor_row, cursor_col)
       IN  /\ cursor_display_row = d - 1
           /\ cursor_display_col = cursor_col - SegStart(d)

\* The cells of the window drawn as the cursor: <<row of the window
\* (1-based), column (0-based)>>.
CursorCells ==
    UNION {{<<r, c>> : c \in screen[r].cursor} : r \in 1..Len(screen)}

\* C19: a content frame rendered in INSERT mode with visible_rows >= 1 marks
\* exactly one cursor cell, inside the window, on the display row and column
\* the cursor mapping computed; a frame rendered in NORMAL mode marks none.
C19_CursorRendering ==
    (lpc = "idle" /\ screen # <<>>) =>
        IF mode = "INSERT"
        THEN CursorCells = {<<cursor_display_row - scroll_offset + 1, cursor_display_col>>}
        ELSE CursorCells = {}

\* C19's case: the window of two rows has scrolled, the cursor is drawn on
\* its bottom row, after the first character of the display line.
C19_Witness ==
    /\ lpc = "idle" /\ mode = "INSERT"
    /\ visible_rows = 2 /\ scroll_offset = 1
    /\ cursor_display_col >= 1
    /\ CursorCells = {<<2, cursor_display_col>>}

\* C21: the auto-scroll update of a frame is minimal. When the cursor's
\* display row is inside the window before the update, scroll_offset is left
\* alone; when it is below the window, the update puts it exactly on the
\* bottom row of the window; when it is above, exactly on the top row; and
\* scroll_offset is >= 0 after the update.
C21_AutoScrollMinimal ==
    [][(lpc = "lines" /\ lpc' = "rows") =>
         LET inside == /\ scroll_offset <= cursor_display_row
                       /\ cursor_display_row < scroll_offset + visible_rows
             below == cursor_display_row >= scroll_offset + visible_rows
         IN  /\ inside => scroll_offset' = scroll_offset
             /\ (~inside /\ below) =>
                    cursor_display_row = scroll_offset' + visible_rows - 1
             /\ (~inside /\ ~below) => cursor_display_row = scroll_offset'
             /\ scroll_offset' >= 0]_vars

\* C21's case: the layout of a frame has found the cursor two display rows
\* above a window of two rows that an earlier frame had scrolled down; the
\* update that scrolls up is the next step.
C21_Witness ==
    /\ lpc = "lines" /\ i >= Len(lines)
    /\ visible_rows = 2
    /\ cursor_display_row = scroll_offset - 2

\* s without its spaces.
RECURSIVE NoSpaces(_)
NoSpaces(s) ==
    IF s = <<>> THEN <<>>
    ELSE (IF Head(s) = " " THEN <<>> ELSE <<Head(s)>>) \o NoSpaces(Tail(s))

\* The strings of the list ss, one after the other.
RECURSIVE Concat(_)
Concat(ss) == IF ss = <<>> THEN <<>> ELSE Head(ss) \o Concat(Tail(ss))

\* C23: wrapping loses no visible text. For every text and every width >= 1,
\* the list _wrap_line returns has at least one segment, and its segments
\* put one after the other, spaces removed, are the text with its spaces
\* removed: every non-space character once, in order.
C23_WrapKeepsText ==
    (lpc = "returned" /\ columns - 1 >= 1) =>
        /\ Len(wrapped) >= 1
        /\ NoSpaces(Concat(wrapped)) = NoSpaces(lines[1])

\* C23's case: _wrap_line has returned a text of two words it wrapped at the
\* space and whose second word, longer than the width 2, it split.
C23_Witness ==
    /\ lpc = "returned"
    /\ columns = 3
    /\ lines = << <<"b", " ", "a", "a", "a">> >>
    /\ wrapped = << <<"b">>, <<"a", "a">>, <<"a">> >>

----------------------------------------------------------------------------
(* The typing simulation: _simulate_typing, _type_text,                    *)
(* _type_special_sequence, _make_mistake; one edit operation or one call   *)
(* of _add_frame a step. What a frame shows is the layout run's matter: a  *)
(* frame step here leaves the buffer alone and moves on.                   *)

\* The length of the input text.
MaxText == 7

\* _type_text, line 315: char_idx > 5
MistakeMinIdx == 5

\* The characters of the input text, next to the newline.
TChars == {"a", "b"}

\* The input texts.
Texts == UNION {[1..n -> TChars \cup {NL}] : n \in 0..MaxText}

\* config.mistake_rate, in percent.
MistakeRates == {0, 50}

\* The items of config.special_sequences: a key (pattern) and its value, a
\* [typo, correct] list or a lone string (then held in typo).
PairItem(pat, ty, co) == [pattern |-> pat, kind |-> "pair", typo |-> ty, correct |-> co]

StrItem(pat, str) == [pattern |-> pat, kind |-> "str", typo |-> str, correct |-> <<>>]

SpecialTables ==
    { <<>>,
      << PairItem(<<"b", "a">>, <<"b", "a">>, <<"a", "b">>) >>,
      << StrItem(<<"a", "b">>, <<"a", "a", "b">>),
         PairItem(<<"a">>, <<"a", NL>>, <<"a", "b">>) >> }

\* text.split('\n')
RECURSIVE SplitLines(_)
SplitLines(s) ==
    LET n == IndexOf(s, NL, 0)
    IN  IF n = -1 THEN <<s>>
        ELSE <<Take(s, n)>> \o SplitLines(Drop(s, n + 1))

\* os.path.commonprefix([a, b])
RECURSIVE CommonPrefix(_, _)
CommonPrefix(a, b) ==
    IF a = <<>> \/ b = <<>> \/ Head(a) # Head(b) THEN <<>>
    ELSE <<Head(a)>> \o CommonPrefix(Tail(a), Tail(b))

\* A line 345 that counts on correct instead of typo.
BackspaceCountOfCorrect(ty, co) == Len(co) - Len(CommonPrefix(ty, co))

\* _type_special_sequence, line 345: the number of backspaces
BackspaceCount(ty, co) == Len(ty) - Len(CommonPrefix(ty, co))

\* _type_special_sequence, line 350: suffix
Suffix(ty, co) == Drop(co, Len(CommonPrefix(ty, co)))

\* _type_text, lines 290-291: the index in the table tbl of the first item
\* whose key starts line[char_idx:], from item n on; 0 when there is none.
RECURSIVE FirstMatch(_, _, _, _)
FirstMatch(tbl, line, idx, n) ==
    IF n > Len(tbl) THEN 0
    ELSE IF StartsWith(Drop(line, idx), tbl[n].pattern) THEN n
    ELSE FirstMatch(tbl, line, idx, n + 1)

\* _type_text, lines 293-297: typo and correct of an item
ItemTypo(item) == item.typo

ItemCorrect(item) == IF item.kind = "pair" THEN item.correct ELSE item.pattern

\* random.random() < mistake_rate: what the draw can give
MistakeDraws(rate) ==
    IF rate <= 0 THEN {FALSE} ELSE IF rate >= 100 THEN {TRUE} ELSE {TRUE, FALSE}

\* config.fps of the runs.
FpsValues == {30}

\* The durations of the configuration, in milliseconds (the source holds
\* them in seconds), typing_speed_variance and burst_probability in percent.
Timing ==
    [greeting_duration |-> 2000,
     typing_speed_base |-> 100,
     typing_speed_variance |-> 0,
     burst_probability |-> 0,
     burst_speed |-> 50,
     correction_pause |-> 500,
     sentence_pause |-> 700,
     punctuation_pause |-> 400,
     space_pause |-> 150,
     newline_pause |-> 300]

\* _calculate_pause(char): the pauses it can return, in milliseconds; the
\* draw of random.uniform(-variance, variance) to the millisecond.
CalculatePause(char) ==
    IF char \in {".", "!", "?"} THEN {Timing.sentence_pause}
    ELSE IF char \in {",", ";", ":"} THEN {Timing.punctuation_pause}
    ELSE IF char = " " THEN {Timing.space_pause}
    ELSE LET base == Timing.typing_speed_base
             variance == (base * Timing.typing_speed_variance) \div 100
         IN  (IF Timing.burst_probability > 0 THEN {Timing.burst_speed} ELSE {})
             \cup (IF Timing.burst_probability < 100
                   THEN {base + v : v \in (0 - variance)..variance}
                   ELSE {})

\* _add_frame, line 417: max(1, int(duration * fps)), duration d in
\* milliseconds
NumFrames(d, f) == Max(1, (d * f) \div 1000)

\* What a frame rendered from buffer b in mode m shows of them.
View(b, m) ==
    [lines |-> b.lines, cursor_row |-> b.cursor_row, cursor_col |-> b.cursor_col,
     mode |-> m]

\* The frames written are counted up to MaxVideo, which is more than any
\* text of the runs takes.
MaxVideo == 600

\* _add_frame(d) with the buffer b and the mode m: the frame is rendered and
\* written num_frames times
AddFrame(d, b, m) ==
    /\ duration' = d
    /\ num_frames' = NumFrames(d, fps)
    /\ video' = Min(video + NumFrames(d, fps), MaxVideo)
    /\ shown' = View(b, m)
    /\ UNCHANGED <<fps, show_greeting, runVars>>

\* _type_text: lines[line_idx]
TextLine == SplitLines(text)[line_idx + 1]

\* The configuration and the input of a run over a text of txts and a
\* special_sequences of tbls, and the generator as its constructor leaves it.
Fresh(txts, tbls) ==
    /\ lines = InitBuf.lines
    /\ cursor_row = InitBuf.cursor_row
    /\ cursor_col = InitBuf.cursor_col
    /\ prev = InitBuf
    /\ hist = <<"none", "none">>
    /\ mode = "NORMAL"
    /\ scroll_offset = 0
    /\ NoConfig
    /\ NoFrame
    /\ text \in txts
    /\ special_sequences \in tbls
    /\ mistake_rate \in MistakeRates
    /\ line_idx = 0
    /\ char_idx = 0
    /\ pattern = <<>>
    /\ typo = <<>>
    /\ correct = <<>>
    /\ seq_idx = 0
    /\ fps \in FpsValues
    /\ show_greeting \in BOOLEAN
    /\ video = 0
    /\ shown = Blank
    /\ duration = 0
    /\ num_frames = 0
    /\ exit_status = "running"
    /\ error = "none"

\* The state in which generate calls _simulate_typing(text) (line 166):
\* _init_video has opened the writer on the output file.
TStart(txts, tbls) ==
    /\ Fresh(txts, tbls)
    /\ pc = "greeting"
    /\ video_writer = "open"
    /\ output_file = "writing"

TInit == TStart(Texts, SpecialTables)

\* A step of the driver that only moves on: a call of _add_frame(d).
Frame(from, to, d) ==
    /\ pc = from
    /\ pc' = to
    /\ AddFrame(d, Buf, mode)
    /\ UNCHANGED <<bufVars, mode, scroll_offset, histVars, cfgVars, layVars, inVars>>

\* _simulate_typing, lines 248-249: the greeting frame, when
\* config.show_greeting asks for it
TGreeting ==
    /\ IF show_greeting
       THEN Frame("greeting", "open_cmd", Timing.greeting_duration)
       ELSE /\ pc = "greeting"
            /\ pc' = "open_cmd"
            /\ UNCHANGED <<bufVars, mode, scroll_offset, histVars, cfgVars, layVars,
                           inVars, vidVars, runVars>>
    /\ UNCHANGED typVars

\* _simulate_typing, lines 252-253
TOpenCmdFrame ==
    /\ Frame("open_cmd", "open", 400)
    /\ UNCHANGED typVars

\* _simulate_typing, lines 254-255
TOpenFrame ==
    /\ Frame("open", "insert_cmd", 200)
    /\ UNCHANGED typVars

\* _simulate_typing, lines 258-259
TInsertCmdFrame ==
    /\ Frame("insert_cmd", "insert", 300)
    /\ UNCHANGED typVars

\* _simulate_typing, lines 260-265: INSERT mode, its frame, and the call of
\* _type_text up to its first line (278-285)
TEnterInsert ==
    /\ pc = "insert"
    /\ mode' = "INSERT"
    /\ line_idx' = 0
    /\ char_idx' = 0
    /\ pc' = "type_text"
    /\ AddFrame(200, Buf, "INSERT")
    /\ UNCHANGED <<bufVars, scroll_offset, histVars, cfgVars, layVars, inVars,
                   pattern, typo, correct, seq_idx>>

\* _type_text, lines 287-301: a key of special_sequences starts here; the
\* first such item gives typo and correct of _type_special_sequence
TSpecialStart ==
    /\ pc = "type_text"
    /\ char_idx < Len(TextLine)
    /\ LET n == FirstMatch(special_sequences, TextLine, char_idx, 1)
       IN  /\ n # 0
           /\ pattern' = special_sequences[n].pattern
           /\ typo' = ItemTypo(special_sequences[n])
           /\ correct' = ItemCorrect(special_sequences[n])
    /\ seq_idx' = 0
    /\ prev' = Buf
    /\ pc' = "sp_typo"
    /\ UNCHANGED <<bufVars, mode, scroll_offset, hist, cfgVars, layVars, inVars, vidVars, runVars,
                   line_idx, char_idx>>

\* _type_special_sequence, lines 337-338: a character of the typo
TSpecialTypoChar ==
    /\ pc = "sp_typo"
    /\ seq_idx < Len(typo)
    /\ SetBuf(TypeCharacter(Buf, typo[seq_idx + 1]))
    /\ pc' = "sp_typo_frame"
    /\ UNCHANGED <<mode, scroll_offset, histVars, cfgVars, layVars, inVars, vidVars, runVars, typVars>>

\* _type_special_sequence, line 339
TSpecialTypoFrame ==
    /\ Frame("sp_typo_frame", "sp_typo", Timing.typing_speed_base)
    /\ seq_idx' = seq_idx + 1
    /\ UNCHANGED <<line_idx, char_idx, pattern, typo, correct>>

\* _type_special_sequence, line 342: the pause after the typo
TSpecialPause ==
    /\ seq_idx >= Len(typo)
    /\ Frame("sp_typo", "sp_bs", Timing.correction_pause)
    /\ seq_idx' = 0
    /\ UNCHANGED <<line_idx, char_idx, pattern, typo, correct>>

\* _type_special_sequence, lines 345-346: a backspace
TSpecialBackspace ==
    /\ pc = "sp_bs"
    /\ seq_idx < BackspaceCount(typo, correct)
    /\ SetBuf(Backspace(Buf))
    /\ pc' = "sp_bs_frame"
    /\ UNCHANGED <<mode, scroll_offset, histVars, cfgVars, layVars, inVars, vidVars, runVars, typVars>>

\* A line 347 that is missing: the backspace gets no frame.
TSpecialBackspaceNoFrame ==
    /\ pc = "sp_bs_frame"
    /\ pc' = "sp_bs"
    /\ seq_idx' = seq_idx + 1
    /\ UNCHANGED <<bufVars, mode, scroll_offset, histVars, cfgVars, layVars, inVars,
                   vidVars, runVars, line_idx, char_idx, pattern, typo, correct>>

\* _type_special_sequence, line 347
TSpecialBackspaceFrame ==
    /\ Frame("sp_bs_frame", "sp_bs", 60)
    /\ seq_idx' = seq_idx + 1
    /\ UNCHANGED <<line_idx, char_idx, pattern, typo, correct>>

\* _type_special_sequence, line 350: the backspaces are done, suffix is taken
TSpecialSuffix ==
    /\ pc = "sp_bs"
    /\ seq_idx >= BackspaceCount(typo, correct)
    /\ seq_idx' = 0
    /\ pc' = "sp_fix"
    /\ UNCHANGED <<bufVars, mode, scroll_offset, histVars, cfgVars, layVars, inVars, vidVars, runVars,
                   line_idx, char_idx, pattern, typo, correct>>

\* _type_special_sequence, lines 351-352: a character of the correction
TSpecialFixChar ==
    /\ pc = "sp_fix"
    /\ seq_idx < Len(Suffix(typo, correct))
    /\ SetBuf(TypeCharacter(Buf, Suffix(typo, correct)[seq_idx + 1]))
    /\ pc' = "sp_fix_frame"
    /\ UNCHANGED <<mode, scroll_offset, histVars, cfgVars, layVars, inVars, vidVars, runVars, typVars>>

\* _type_special_sequence, line 353
TSpecialFixFrame ==
    /\ Frame("sp_fix_frame", "sp_fix", Timing.typing_speed_base)
    /\ seq_idx' = seq_idx + 1
    /\ UNCHANGED <<line_idx, char_idx, pattern, typo, correct>>

\* _type_special_sequence returns; _type_text, lines 299-304
TSpecialReturn ==
    /\ pc = "sp_fix"
    /\ seq_idx >= Len(Suffix(typo, correct))
    /\ char_idx' = char_idx + Len(pattern)
    /\ pc' = "type_text"
    /\ UNCHANGED <<bufVars, mode, scroll_offset, histVars, cfgVars, layVars, inVars, vidVars, runVars,
                   line_idx, pattern, typo, correct, seq_idx>>

\* _type_text, lines 306-308: a regular character
TTypeChar ==
    /\ pc = "type_text"
    /\ char_idx < Len(TextLine)
    /\ FirstMatch(special_sequences, TextLine, char_idx, 1) = 0
    /\ SetBuf(TypeCharacter(Buf, TextLine[char_idx + 1]))
    /\ prev' = Buf
    /\ pc' = "char_frame"
    /\ UNCHANGED <<mode, scroll_offset, hist, cfgVars, layVars, inVars, vidVars, runVars, typVars>>

\* A line 315 that does not test char_idx.
TCharFrameAnyIdx ==
    /\ pc = "char_frame"
    /\ \E pause \in CalculatePause(TextLine[char_idx + 1]),
          draw \in MistakeDraws(mistake_rate) :
        \/ /\ draw
           /\ Frame("char_frame", "mistake", pause)
           /\ UNCHANGED typVars
        \/ /\ ~draw
           /\ Frame("char_frame", "type_text", pause)
           /\ char_idx' = char_idx + 1
           /\ UNCHANGED <<line_idx, pattern, typo, correct, seq_idx>>

\* _type_text, lines 310-318: the pause of the character, its frame, then
\* the draw that decides on a mistake
TCharFrame ==
    /\ pc = "char_frame"
    /\ \E pause \in CalculatePause(TextLine[char_idx + 1]),
          draw \in MistakeDraws(mistake_rate) :
        \/ /\ draw /\ char_idx > MistakeMinIdx
           /\ Frame("char_frame", "mistake", pause)
           /\ UNCHANGED typVars
        \/ /\ ~(draw /\ char_idx > MistakeMinIdx)
           /\ Frame("char_frame", "type_text", pause)
           /\ char_idx' = char_idx + 1
           /\ UNCHANGED <<line_idx, pattern, typo, correct, seq_idx>>

\* _make_mistake, lines 357-358: the wrong character
TMistakeType ==
    /\ pc = "mistake"
    /\ \E wrong_char \in WrongChars : SetBuf(TypeCharacter(Buf, wrong_char))
    /\ prev' = Buf
    /\ pc' = "mistake_frames"
    /\ UNCHANGED <<mode, scroll_offset, hist, cfgVars, layVars, inVars, vidVars, runVars, typVars>>

\* _make_mistake, line 359: the frame of the wrong character
TMistakeTypedFrame ==
    /\ Frame("mistake_frames", "mistake_pause", 150)
    /\ UNCHANGED typVars

\* _make_mistake, line 361: the pause before the correction
TMistakePause ==
    /\ Frame("mistake_pause", "mistake_bs", Timing.correction_pause)
    /\ UNCHANGED typVars

\* _make_mistake, line 363
TMistakeBackspace ==
    /\ pc = "mistake_bs"
    /\ SetBuf(Backspace(Buf))
    /\ pc' = "mistake_frame"
    /\ UNCHANGED <<mode, scroll_offset, histVars, cfgVars, layVars, inVars, vidVars, runVars, typVars>>

\* _make_mistake, line 364, and its return to _type_text, line 318
TMistakeFrame ==
    /\ Frame("mistake_frame", "type_text", 100)
    /\ char_idx' = char_idx + 1
    /\ UNCHANGED <<line_idx, pattern, typo, correct, seq_idx>>

\* _type_text, lines 326-328: the newline after every line but the last
TNewline ==
    /\ pc = "type_text"
    /\ ~(char_idx < Len(TextLine))
    /\ line_idx < Len(SplitLines(text)) - 1
    /\ SetBuf(TypeCharacter(Buf, NL))
    /\ prev' = Buf
    /\ pc' = "nl_frame"
    /\ UNCHANGED <<mode, scroll_offset, hist, cfgVars, layVars, inVars, vidVars, runVars, typVars>>

\* A line 329 that is missing: the newline gets no frame.
TNewlineNoFrame ==
    /\ pc = "nl_frame"
    /\ pc' = "type_text"
    /\ line_idx' = line_idx + 1
    /\ char_idx' = 0
    /\ UNCHANGED <<bufVars, mode, scroll_offset, histVars, cfgVars, layVars, inVars,
                   vidVars, runVars, pattern, typo, correct, seq_idx>>

\* _type_text, line 329, and the next line of the text
TNewlineFrame ==
    /\ Frame("nl_frame", "type_text", Timing.newline_pause)
    /\ line_idx' = line_idx + 1
    /\ char_idx' = 0
    /\ UNCHANGED <<pattern, typo, correct, seq_idx>>

\* _type_text returns after the last line (332)
TEndText ==
    /\ pc = "type_text"
    /\ ~(char_idx < Len(TextLine))
    /\ ~(line_idx < Len(SplitLines(text)) - 1)
    /\ pc' = "exit"
    /\ UNCHANGED <<bufVars, mode, scroll_offset, histVars, cfgVars, layVars, inVars, vidVars, runVars,
                   typVars>>

\* A line 268 that is missing: the mode stays INSERT.
TExitInsertKeepsMode ==
    /\ pc = "exit"
    /\ pc' = "write_cmd"
    /\ AddFrame(1000, Buf, mode)
    /\ UNCHANGED <<bufVars, mode, scroll_offset, histVars, cfgVars, layVars, inVars,
                   typVars>>

\* _simulate_typing, lines 268-269: NORMAL mode and its frame
TExitInsert ==
    /\ pc = "exit"
    /\ mode' = "NORMAL"
    /\ pc' = "write_cmd"
    /\ AddFrame(1000, Buf, "NORMAL")
    /\ UNCHANGED <<bufVars, scroll_offset, histVars, cfgVars, layVars, inVars, typVars>>

\* _simulate_typing, lines 271-272
TWriteCmdFrame ==
    /\ Frame("write_cmd", "written", 600)
    /\ UNCHANGED typVars

\* _simulate_typing, lines 273-274
TWrittenFrame ==
    /\ Frame("written", "done", 2000)
    /\ UNCHANGED typVars

TNext ==
    \/ TGreeting \/ TOpenCmdFrame \/ TOpenFrame \/ TInsertCmdFrame \/ TEnterInsert
    \/ TSpecialStart \/ TSpecialTypoChar \/ TSpecialTypoFrame \/ TSpecialPause
    \/ TSpecialBackspace \/ TSpecialBackspaceFrame \/ TSpecialSuffix
    \/ TSpecialFixChar \/ TSpecialFixFrame \/ TSpecialReturn
    \/ TTypeChar \/ TCharFrame
    \/ TMistakeType \/ TMistakeTypedFrame \/ TMistakePause \/ TMistakeBackspace \/ TMistakeFrame
    \/ TNewline \/ TNewlineFrame \/ TEndText
    \/ TExitInsert \/ TWriteCmdFrame \/ TWrittenFrame

TypingSpec == TInit /\ [][TNext]_vars

----------------------------------------------------------------------------
(* The typing simulation as a program that keeps running: the same steps,   *)
(* taken as long as one can be taken. Its configurations include a          *)
(* special_sequences whose key is the empty string.                         *)

\* The length of the input texts of this run, one long line aside.
MaxTermText == 3

\* A line long enough for a mistake to be injected at its end.
LongLine == [n \in 1..(MistakeMinIdx + 2) |-> "a"]

TermTexts == UNION {[1..n -> TChars \cup {NL}] : n \in 0..MaxTermText} \cup {LongLine}

\* special_sequences = {"": ["a", ""]}
EmptyKeyTable == << PairItem(<<>>, <<"a">>, <<>>) >>

TermTables == SpecialTables \cup {EmptyKeyTable}

TermInit == TStart(TermTexts, TermTables)

TermSpec == TermInit /\ [][TNext]_vars /\ WF_vars(TNext)

----------------------------------------------------------------------------
(* main and generate around the typing simulation: the text is read, the   *)
(* writer opened, _simulate_typing runs (the steps above) and may raise,    *)
(* the finally clause releases the writer, main reports an exception.       *)

\* The positions inside _simulate_typing.
InSimulateTyping ==
    {"greeting", "open_cmd", "open", "insert_cmd", "insert", "type_text",
     "sp_typo", "sp_typo_frame", "sp_bs", "sp_bs_frame", "sp_fix", "sp_fix_frame",
     "char_frame", "mistake", "mistake_frames", "mistake_pause", "mistake_bs",
     "mistake_frame", "nl_frame", "exit", "write_cmd", "written"}

\* main, line 737: the generator is constructed, nothing is written yet
GInit ==
    /\ Fresh(TermTexts, SpecialTables)
    /\ pc = "main"
    /\ video_writer = "None"
    /\ output_file = "absent"

\* main, line 738, and generate, lines 158-159: the input is read, or the
\* read raises (the file cannot be read or decoded)
GReadText ==
    /\ pc = "main"
    /\ \E ok \in BOOLEAN : pc' = IF ok THEN "init_video" ELSE "except"
    /\ UNCHANGED <<bufVars, mode, scroll_offset, histVars, cfgVars, layVars, inVars,
                   typVars, vidVars, runVars>>

\* generate, line 162, and _init_video: the writer is opened on the output
\* file, or isOpened() fails and RuntimeError is raised (line 197), outside
\* the try of generate: the writer that did not open stays in video_writer
GInitVideo ==
    /\ pc = "init_video"
    /\ \E opened \in BOOLEAN :
        IF opened
        THEN /\ video_writer' = "open"
             /\ output_file' = "writing"
             /\ pc' = "greeting"
        ELSE /\ video_writer' = "unopened"
             /\ pc' = "except"
             /\ UNCHANGED output_file
    /\ UNCHANGED <<bufVars, mode, scroll_offset, histVars, cfgVars, layVars, inVars,
                   typVars, vidVars, exit_status, error>>

\* generate, lines 164-166: a step of _simulate_typing raises an exception
GRaise ==
    /\ pc \in InSimulateTyping
    /\ pc' = "finally_raised"
    /\ UNCHANGED <<bufVars, mode, scroll_offset, histVars, cfgVars, layVars, inVars,
                   typVars, vidVars, runVars>>

\* Lines 168-172 as an else clause of the try: an exception skips the
\* release and goes on.
GFinallyRaisedNoRelease ==
    /\ pc = "finally_raised"
    /\ pc' = "except"
    /\ UNCHANGED <<bufVars, mode, scroll_offset, histVars, cfgVars, layVars, inVars,
                   typVars, vidVars, runVars>>

\* generate, lines 168-172, after an exception: the writer is released, the
\* file is closed with the frames written so far; the exception goes on
GFinallyRaised ==
    /\ pc = "finally_raised"
    /\ video_writer' = "None"
    /\ output_file' = "partial"
    /\ pc' = "except"
    /\ UNCHANGED <<bufVars, mode, scroll_offset, histVars, cfgVars, layVars, inVars,
                   typVars, vidVars, exit_status, error>>

\* generate, lines 168-172, after _simulate_typing returned: the writer is
\* released, the file is closed with all its frames
GFinallyReturned ==
    /\ pc = "done"
    /\ video_writer = "open"
    /\ video_writer' = "None"
    /\ output_file' = "complete"
    /\ pc' = "compress"
    /\ UNCHANGED <<bufVars, mode, scroll_offset, histVars, cfgVars, layVars, inVars,
                   typVars, vidVars, exit_status, error>>

\* generate, lines 174-178: the size is printed, _compress_video replaces
\* the file by its compressed version or keeps it; main returns
GCompress ==
    /\ pc = "compress"
    /\ pc' = "exited"
    /\ exit_status' = "0"
    /\ UNCHANGED <<bufVars, mode, scroll_offset, histVars, cfgVars, layVars, inVars,
                   typVars, vidVars, video_writer, output_file, error>>

\* main, lines 739-741: the exception is printed, sys.exit(1)
GMainExcept ==
    /\ pc = "except"
    /\ pc' = "exited"
    /\ exit_status' = "1"
    /\ UNCHANGED <<bufVars, mode, scroll_offset, histVars, cfgVars, layVars, inVars,
                   typVars, vidVars, video_writer, output_file, error>>

GNext ==
    \/ GReadText \/ GInitVideo \/ GRaise \/ GFinallyRaised \/ GFinallyReturned
    \/ GCompress \/ GMainExcept
    \/ TNext

GenerateSpec == GInit /\ [][GNext]_vars

----------------------------------------------------------------------------
(* Claims on the typing simulation *)

\* The lines joined by newlines.
RECURSIVE JoinLines(_)
JoinLines(ls) ==
    IF Len(ls) <= 1 THEN (IF ls = <<>> THEN <<>> ELSE ls[1])
    ELSE ls[1] \o <<NL>> \o JoinLines(Tail(ls))

\* The line from idx on, every key occurrence the left-to-right scan matches
\* (the first configured key that matches wins, the scan resumes after the
\* key) replaced by the key's correct string.
RECURSIVE ExpandLine(_, _, _)
ExpandLine(tbl, line, idx) ==
    IF idx >= Len(line) THEN <<>>
    ELSE LET n == FirstMatch(tbl, line, idx, 1)
         IN  IF n = 0 THEN <<line[idx + 1]>> \o ExpandLine(tbl, line, idx + 1)
             ELSE ItemCorrect(tbl[n]) \o ExpandLine(tbl, line, idx + Len(tbl[n].pattern))

\* The Document of the text with its key occurrences replaced.
ExpandText(tbl, txt) ==
    LET ls == SplitLines(txt)
    IN  SplitLines(JoinLines([n \in 1..Len(ls) |-> ExpandLine(tbl, ls[n], 0)]))

\* The place of the cursor of b in the lines joined by newlines.
Offset(b) == SumLen(SubSeq(b.lines, 1, b.cursor_row)) + b.cursor_row + b.cursor_col

\* The number of newlines in s.
RECURSIVE CountNL(_)
CountNL(s) == IF s = <<>> THEN 0 ELSE (IF Head(s) = NL THEN 1 ELSE 0) + CountNL(Tail(s))

\* The buffer b with the string str inserted at the cursor, the cursor after it.
InsertAtCursor(b, str) ==
    LET flat == JoinLines(b.lines)
        off == Offset(b)
        before == Take(flat, off) \o str
        ls == SplitLines(before \o Drop(flat, off))
    IN  [lines |-> ls,
         cursor_row |-> CountNL(before),
         cursor_col |-> Len(SplitLines(before)[CountNL(before) + 1])]

TypingDone == pc \in {"exit", "write_cmd", "written", "done"}

\* C7: once the event stream is applied, the Document is the input with every
\* matched key occurrence replaced by the key's correct string; and one
\* expansion (typo, backspaces, rest of correct) has inserted exactly correct
\* at the cursor.
C7_SpecialExpansion ==
    /\ TypingDone => lines = ExpandText(special_sequences, text)
    /\ (pc = "sp_fix" /\ seq_idx >= Len(Suffix(typo, correct)))
           => Buf = InsertAtCursor(prev, correct)

\* C7's case: a run with keys in its text has ended, after an expansion
\* whose typo and correct share a prefix and whose typo (it broke the line)
\* had to be shortened.
C7_Witness ==
    /\ pc = "done"
    /\ typo = <<"a", NL>> /\ correct = <<"a", "b">>
    /\ lines # SplitLines(text)
    /\ Len(lines) >= 2

\* C8: with mistake_rate = 0 and no special sequences, at the end of the
\* simulation the Document is the input split on newlines, the cursor is at
\* (last row, length of the last line) and the mode is NORMAL.
C8_EndToEnd ==
    (pc = "done" /\ mistake_rate = 0 /\ special_sequences = <<>>) =>
        /\ lines = SplitLines(text)
        /\ cursor_row = Len(SplitLines(text)) - 1
        /\ cursor_col = Len(SplitLines(text)[Len(SplitLines(text))])
        /\ mode = "NORMAL"

\* C8's case: a text of two lines ("aba\nbab", as "Hi.\nBye") was typed.
C8_Witness ==
    /\ pc = "done" /\ mistake_rate = 0 /\ special_sequences = <<>>
    /\ text = <<"a", "b", "a", NL, "b", "a", "b">>
    /\ cursor_row = 1 /\ cursor_col = 3

\* C10: when _make_mistake has typed its wrong character and backspaced, the
\* Document and the cursor are those it found (prev); and at the end of a run
\* that may inject mistakes the Document is what the text and the special
\* sequences alone determine.
C10_MistakeLeavesBuffer ==
    /\ pc = "mistake_frame" => Buf = prev
    /\ (pc = "done" /\ mistake_rate > 0) => lines = ExpandText(special_sequences, text)

\* C10's case: a mistake was injected and undone after the seventh character
\* of a line.
C10_Witness ==
    /\ pc = "mistake_frame"
    /\ char_idx = 6
    /\ cursor_col = 7

----------------------------------------------------------------------------
(* Claims on the frames of the typing simulation *)

\* C11: an edit operation is applied only when the last frame written shows
\* the buffer as it is (the frame of the edit before it has been rendered and
\* written, at least once); every step that writes renders the state it
\* leaves and writes that frame at once; and after the last edit the last
\* frame written shows the final buffer.
C11_FramesFollowEdits ==
    /\ [][(<<lines, cursor_row, cursor_col>>' # <<lines, cursor_row, cursor_col>>)
            => (shown = View(Buf, mode) /\ num_frames >= 1 /\ video' = video)]_vars
    /\ [][(video' # video)
            => (/\ num_frames' >= 1
                /\ video' = Min(video + num_frames', MaxVideo)
                /\ shown' = View([lines |-> lines', cursor_row |-> cursor_row',
                                  cursor_col |-> cursor_col'], mode'))]_vars
    /\ [](TypingDone =>
            (shown.lines = lines /\ shown.cursor_row = cursor_row
             /\ shown.cursor_col = cursor_col))

\* C11's case: within a special sequence, a backspace that joined two lines
\* has had its frame, written once, and the next edit is due.
C11_Witness ==
    /\ pc = "sp_bs" /\ seq_idx = 1
    /\ typo = <<"a", NL>>
    /\ shown = View(Buf, "INSERT")
    /\ duration = 60 /\ num_frames = 1
    /\ Len(lines) = 1

\* C12: for every finite text and every special-sequence table, a table with
\* an empty-string key included, _type_text emits finitely many edit
\* operations and returns: the run gets past the typing.
C12_EventStreamFinite == <>TypingDone

\* round(d * f), d in milliseconds, halves to the even neighbour.
RoundTicks(d, f) ==
    LET q == (d * f) \div 1000
        r == (d * f) % 1000
    IN  IF r > 500 THEN q + 1
        ELSE IF r < 500 THEN q
        ELSE q + (q % 2)

\* C13: a frame rendered with hold duration d at frame rate fps is written
\* max(1, round(d * fps)) times.
C13_TicksRounded ==
    shown # Blank => num_frames = Max(1, RoundTicks(duration, fps))

\* The hold of the keystroke c, in milliseconds, where the timing leaves no
\* choice.
HoldOf(c) ==
    IF c = NL THEN Timing.newline_pause ELSE CHOOSE d \in CalculatePause(c) : TRUE

\* The hold ticks of the keystrokes of s, one hold each.
RECURSIVE KeystrokeTicks(_)
KeystrokeTicks(s) ==
    IF s = <<>> THEN 0 ELSE NumFrames(HoldOf(Head(s)), fps) + KeystrokeTicks(Tail(s))

\* The hold ticks of the scripted framing: the greeting when it is asked
\* for, four holds before the typing and three after it.
FramingTicks ==
    (IF show_greeting THEN NumFrames(Timing.greeting_duration, fps) ELSE 0)
    + NumFrames(400, fps) + NumFrames(200, fps) + NumFrames(300, fps)
    + NumFrames(200, fps)
    + NumFrames(1000, fps) + NumFrames(600, fps) + NumFrames(2000, fps)

\* C14: with mistake_rate = 0 and no special sequences, at the end of the
\* run the frames written are the hold ticks of one hold per keystroke of the
\* input (characters and newlines) plus those of the scripted framing.
C14_FrameCount ==
    (pc = "done" /\ mistake_rate = 0 /\ special_sequences = <<>>) =>
        video = KeystrokeTicks(text) + FramingTicks

\* C14's case: "aba\nbab" typed after the greeting: 60 + 33 ticks before the
\* typing, 6 * 3 + 9 for the keystrokes, 108 after it.
C14_Witness ==
    /\ pc = "done" /\ mistake_rate = 0 /\ special_sequences = <<>>
    /\ show_greeting
    /\ text = <<"a", "b", "a", NL, "b", "a", "b">>
    /\ video = 228

\* The positions of _simulate_typing up to the end of the open-file framing,
\* and those after the mode is set back.
BeforeInsert == {"greeting", "open_cmd", "open", "insert_cmd", "insert"}

AfterInsert == {"write_cmd", "written", "done"}

\* C18: the mode is NORMAL until the open-file framing ends, INSERT from
\* then on until the typing has returned, and NORMAL in every state after
\* that, the save frames included; it changes only at these two points of
\* the driver, in this order, and every step that changes the buffer is
\* taken in INSERT mode and leaves the mode alone.
C18_ModeSequence ==
    /\ [](pc \in BeforeInsert => mode = "NORMAL")
    /\ [](pc \in InSimulateTyping \ (BeforeInsert \cup AfterInsert) => mode = "INSERT")
    /\ [](pc \in AfterInsert => mode = "NORMAL")
    /\ [][(mode' # mode) =>
            \/ (mode = "NORMAL" /\ mode' = "INSERT" /\ pc = "insert")
            \/ (mode = "INSERT" /\ mode' = "NORMAL" /\ pc = "exit")]_vars
    /\ [][(pc \notin BeforeInsert) => (pc' \notin BeforeInsert)]_vars
    /\ [][(pc \in AfterInsert) => (pc' \in AfterInsert)]_vars
    /\ [][(<<lines, cursor_row, cursor_col>>' # <<lines, cursor_row, cursor_col>>)
            => (mode = "INSERT" /\ mode' = "INSERT")]_vars

\* C18's case: a run that has typed two lines and injected a mistake is at
\* its end, the last frame written in NORMAL mode.
C18_Witness ==
    /\ pc = "done"
    /\ mode = "NORMAL" /\ shown.mode = "NORMAL"
    /\ Len(lines) = 2
    /\ mistake_rate > 0 /\ duration = 2000

\* The positions inside _make_mistake.
InMistake == {"mistake", "mistake_frames", "mistake_pause", "mistake_bs", "mistake_frame"}

\* C20: _make_mistake is entered only from the frame of a regular character
\* (one typed by line 308, no key of special_sequences starting at it) whose
\* index in its raw input line is greater than 5: not after a character at
\* index 0..5, not after a newline, not after a keystroke of a
\* special-sequence expansion, whatever the mistake_rate.
C20_MistakeOnlyAfterRegularChar ==
    /\ [](pc \in InMistake =>
            /\ char_idx > 5
            /\ char_idx < Len(TextLine)
            /\ FirstMatch(special_sequences, TextLine, char_idx, 1) = 0)
    /\ [][(pc' \in InMistake /\ pc \notin InMistake) =>
            /\ pc = "char_frame"
            /\ lines[cursor_row + 1][cursor_col] = TextLine[char_idx + 1]
            /\ <<lines, cursor_row, cursor_col>>' = <<lines, cursor_row, cursor_col>>]_vars

\* C20's case: a mistake is about to be typed after the seventh character
\* of a line in which a special sequence was expanded before.
C20_Witness ==
    /\ pc = "mistake"
    /\ char_idx = 6
    /\ typo # <<>>
    /\ lines[cursor_row + 1] # TextLine

----------------------------------------------------------------------------
(* _render_frame called on any buffer that satisfies the cursor invariant, *)
(* the cursor inside a line included: one frame, laid out by the steps of  *)
(* the layout run.                                                         *)

\* The size of the Document of these frames: its characters and line breaks.
MaxDrawDoc == 4

\* The Documents of these frames.
DDocs == {SplitLines(t) : t \in UNION {[1..n -> LChars \cup {NL}] : n \in 0..MaxDrawDoc}}

\* A call of _render_frame is about to be made.
DInit ==
    /\ lines \in DDocs
    /\ cursor_row \in 0..MaxDrawDoc
    /\ cursor_col \in 0..MaxDrawDoc
    /\ ValidCursor(Buf)
    /\ prev = InitBuf
    /\ hist = <<"none", "none">>
    /\ mode \in {"NORMAL", "INSERT"}
    /\ scroll_offset = 0
    /\ pc = "draw"
    /\ columns \in 1..MaxColumns
    /\ visible_rows \in 0..MaxVisible
    /\ highlight_patterns = <<>>
    /\ lpc = "frame"
    /\ i = 0
    /\ display_lines = <<>>
    /\ display_src = <<>>
    /\ cursor_display_row = 0
    /\ cursor_display_col = 0
    /\ wrapped = <<>>
    /\ words = <<>>
    /\ current_line = <<>>
    /\ word = <<>>
    /\ screen = <<>>
    /\ NoTyping
    /\ NoVideo

DNext ==
    \/ LRenderFrame \/ LDrawShortLine \/ LWrapCall \/ LWordFits \/ LWordFlush
    \/ LSplit \/ LSplitMemoryError \/ LSplitEnd \/ LWrapReturn
    \/ LAutoScroll \/ LDrawRows

DrawSpec == DInit /\ [][DNext]_vars

\* C24: for every buffer that satisfies the cursor invariant and every
\* columns with columns - 1 >= 1, the cursor display position the layout of
\* a frame has computed is drawable: cursor_display_row indexes a display
\* line produced from the cursor's logical line, and
\* 0 <= cursor_display_col <= the length of that display line.
C24_CursorDrawable ==
    (lpc = "rows" /\ columns - 1 >= 1 /\ ValidCursor(Buf)) =>
        /\ 0 <= cursor_display_row /\ cursor_display_row < Len(display_lines)
        /\ display_src[cursor_display_row + 1] = cursor_row
        /\ 0 <= cursor_display_col
        /\ cursor_display_col <= Len(display_lines[cursor_display_row + 1])

\* C24's case: the cursor is inside the second line of the Document, which
\* was wrapped, and the layout has put it on the line's second segment, that
\* is on the third display line.
C24_Witness ==
    /\ lpc = "rows"
    /\ columns = 3
    /\ lines = << <<>>, <<"a", " ", "b">> >>
    /\ cursor_row = 1 /\ cursor_col = 2
    /\ cursor_display_row = 2
    /\ cursor_display_col = 0

----------------------------------------------------------------------------
(* The buffer as a flat text *)

\* The flat text model of the buffer b: the lines joined by newlines, and
\* the offset of the cursor in them.
Flat(b) == [text |-> JoinLines(b.lines), offset |-> Offset(b)]

\* The flat text f with the character c inserted at its offset, the offset
\* after it.
FlatInsert(f, c) ==
    [text |-> Take(f.text, f.offset) \o <<c>> \o Drop(f.text, f.offset),
     offset |-> f.offset + 1]

\* The flat text f without the character before its offset, the offset one
\* less; f itself at offset 0.
FlatDelete(f) ==
    IF f.offset = 0 THEN f
    ELSE [text |-> Take(f.text, f.offset - 1) \o Drop(f.text, f.offset),
          offset |-> f.offset - 1]

\* C22: the line-based buffer refines the flat text model. Under the
\* abstraction Flat (text = lines joined by newline, offset = lengths of
\* the lines before cursor_row plus one newline each plus cursor_col), every
\* insertChar(c) step of a run inserts c at the offset and advances the
\* offset by 1, every insertNewline() step does so with a newline, and every
\* backspace() step deletes the character before the offset and decrements
\* it, or changes nothing at offset 0.
C22_FlatRefinement ==
    [][/\ \A c \in Chars :
            (hist' = <<hist[2], "insertChar">> /\ Buf' = TypeCharacter(Buf, c))
                => Flat(Buf)' = FlatInsert(Flat(Buf), c)
       /\ hist' = <<hist[2], "insertNewline">> => Flat(Buf)' = FlatInsert(Flat(Buf), NL)
       /\ hist' = <<hist[2], "backspace">> => Flat(Buf)' = FlatDelete(Flat(Buf))]_vars

\* C22's case: after another backspace, a backspace at column 0 of the
\* third line of the Document has merged the line into the second: the flat
\* text has lost the newline before the offset, which is one less.
C22_Witness ==
    /\ hist = <<"backspace", "backspace">>
    /\ prev.cursor_row = 2 /\ prev.cursor_col = 0
    /\ Len(lines) = 2
    /\ JoinLines(prev.lines) = JoinLines(lines) \o <<NL>>
    /\ Offset(Buf) = Offset(prev) - 1

----------------------------------------------------------------------------
(* Claims on main and generate *)

\* C15: when the run has ended with an error, the output file is absent or
\* complete (nothing in the program marks a file as incomplete): it is not a
\* partially written file.
C15_NoPartialOutput ==
    (pc = "exited" /\ exit_status = "1") => output_file \in {"absent", "complete"}

\* C25: in generate, once the writer was opened (the output file exists),
\* every way out of _simulate_typing, its return or an exception, releases
\* the writer and sets video_writer to None; the writer is released before
\* the compression step; and the compression step is entered only from the
\* return of _simulate_typing, never after an exception.
C25_WriterReleased ==
    /\ [](((pc \in {"compress", "except", "exited"}) /\ output_file # "absent") =>
            (video_writer = "None" /\ output_file \in {"partial", "complete"}))
    /\ [](pc = "compress" => (video_writer = "None" /\ output_file = "complete"))
    /\ [][/\ pc' = "compress" => (pc = "done" /\ video_writer = "open")
          /\ pc = "finally_raised" => pc' = "except"
          /\ pc = "except" => pc' # "compress"]_vars

\* C25's case: an exception has ended _simulate_typing after frames were
\* written; the writer was released and cleared on the way to main, which
\* has exited with status 1 without a compression.
C25_Witness ==
    /\ pc = "exited" /\ exit_status = "1"
    /\ video > 0
    /\ video_writer = "None"
    /\ output_file = "partial"

====
